---- MODULE Spec2Model ----
(***************************************************************************)
(* Model of utils/build_graph.py: the Neo4jGraphBuilder that upserts the   *)
(* entities extracted from financial-planning documents into a property    *)
(* graph (build_graph_from_entities) and the batch loop that drives        *)
(* read -> extract -> upsert for every document (process_all_documents).   *)
(*                                                                         *)
(* Python dicts are functions whose domain is the set of keys present, so  *)
(* "key absent" and "value None" are different inputs, as in the code.     *)
(* The graph store is a sequence of nodes (a node's identity is its index; *)
(* nodes are never deleted) and a set of relationships between indices.    *)
(***************************************************************************)
EXTENDS Integers, Sequences, FiniteSets, TLC

(***************************************************************************)
(* Bounds of the model.                                                    *)
(***************************************************************************)
MaxDocs     == 2    \* documents found in the directory: 0..MaxDocs
MaxDeps     == 2    \* longest 'dependants' list
MaxProps    == 3    \* longest assets.properties list
MaxAccounts == 2    \* longest assets.pensions / assets.investments list

(***************************************************************************)
(* Python values.                                                          *)
(***************************************************************************)
None == "\\N"                      \* Python None / JSON null

\* f"{v}" : None formats as the text "None", a str as itself
PyStr(v) == IF v = None THEN "None" ELSE v

\* d.get(k, default)
Get(d, k, default) == IF k \in DOMAIN d THEN d[k] ELSE default

\* truth value of a str-or-None (if entities.get('adviser'): ...)
Truthy(v) == v # None /\ v # ""

\* {k: v for k, v in d.items() if v is not None}
DropNone(d) == [k \in {x \in DOMAIN d : d[x] # None} |-> d[k]]

\* d[k] = v  (assignment into a dict)
SetItem(d, k, v) == [x \in DOMAIN d \cup {k} |-> IF x = k THEN v ELSE d[x]]

EmptyDict == <<>>

(***************************************************************************)
(* The graph store: Cypher MERGE / MATCH / SET += as the statements of     *)
(* build_graph_from_entities use them.                                     *)
(***************************************************************************)
EmptyGraph == [nodes |-> <<>>, rels |-> {}]

\* MATCH (n:label {key: val}) : a null value matches nothing
Matching(nodes, label, key, val) ==
    {n \in 1..Len(nodes) : /\ nodes[n].label = label
                           /\ key \in DOMAIN nodes[n].props
                           /\ val # None
                           /\ nodes[n].props[key] = val}

\* variant: CREATE instead of MERGE (a node is added even when one matches)
MergeNode_AlwaysCreate(nodes, label, key, val) ==
    Append(nodes, [label |-> label, props |-> (key :> val)])

\* MERGE (n:label {key: val}) : create the node only when none matches
MergeNode(nodes, label, key, val) ==
    IF Matching(nodes, label, key, val) = {}
    THEN Append(nodes, [label |-> label, props |-> (key :> val)])
    ELSE nodes

\* SET n += m on one property map: keys of m overwrite, a null value removes
PlusEq(p, m) ==
    [k \in (DOMAIN p \cup DOMAIN m) \ {x \in DOMAIN m : m[x] = None} |->
        IF k \in DOMAIN m THEN m[k] ELSE p[k]]

\* SET n += m for every node n of the set ns
SetProps(nodes, ns, m) ==
    [n \in 1..Len(nodes) |->
        IF n \in ns THEN [nodes[n] EXCEPT !.props = PlusEq(@, m)] ELSE nodes[n]]

\* MERGE (a)-[:type]->(b) for every bound pair
MergeRel(rels, type, froms, tos) ==
    rels \cup {[type |-> type, from |-> a, to |-> b] : a \in froms, b \in tos}

\* MERGE (n:label {key: val}) SET n += m  (val not null)
Upsert(nodes, label, key, val, m) ==
    LET merged == MergeNode(nodes, label, key, val)
    IN  SetProps(merged, Matching(merged, label, key, val), m)


(***************************************************************************)
(* The session.run statements of build_graph_from_entities.  Each is one   *)
(* auto-commit transaction: it either takes effect as a whole or raises    *)
(* and leaves the graph as it was.                                         *)
(***************************************************************************)
Ok(g)     == [graph |-> g, ok |-> TRUE]
Raises(g) == [graph |-> g, ok |-> FALSE]

\* MERGE (a:Adviser {name: $name})
RunAdviser(g, name) ==
    Ok([g EXCEPT !.nodes = MergeNode(@, "Adviser", "name", name)])

\* MERGE (c:Client {name: $name}) SET c += $props
\* (the store refuses to MERGE on a null property value)
RunClient(g, name, props) ==
    IF name = None THEN Raises(g)
    ELSE Ok([g EXCEPT !.nodes = Upsert(@, "Client", "name", name, props)])

\* MATCH (c:Client {name: $c_name}), (a:Adviser {name: $a_name})
\* MERGE (a)-[:ADVISES]->(c)
RunAdvises(g, c_name, a_name) ==
    Ok([g EXCEPT !.rels = MergeRel(@, "ADVISES",
                                   Matching(g.nodes, "Adviser", "name", a_name),
                                   Matching(g.nodes, "Client", "name", c_name))])

\* MATCH (c:Client {name: $c_name}) MERGE (x:label {id: $id}) SET x += $props
\* MERGE (c)-[:rel]->(x) : nothing happens when no client matches
RunOwned(g, c_name, label, id, props, rel) ==
    LET cs    == Matching(g.nodes, "Client", "name", c_name)
        nodes == Upsert(g.nodes, label, "id", id, props)
    IN  IF cs = {} THEN Ok(g)
        ELSE Ok([nodes |-> nodes,
                 rels  |-> MergeRel(g.rels, rel, cs, Matching(nodes, label, "id", id))])

\* MERGE (c:Client {name: $owner}) MERGE (x:label {id: $id}) SET x += $props
\* MERGE (c)-[:HAS_ACCOUNT]->(x)
RunAccount(g, owner, label, id, props) ==
    IF owner = None THEN Raises(g)
    ELSE LET withOwner == MergeNode(g.nodes, "Client", "name", owner)
             nodes     == Upsert(withOwner, label, "id", id, props)
         IN  Ok([nodes |-> nodes,
                 rels  |-> MergeRel(g.rels, "HAS_ACCOUNT",
                                    Matching(nodes, "Client", "name", owner),
                                    Matching(nodes, label, "id", id))])

\* MATCH (c:Client {name: $name}) MERGE (g:Goal {id: $id})
\* SET g.type='Retirement', g += $props  MERGE (c)-[:HAS_GOAL]->(g)
RunGoal(g, name, id, props) ==
    LET cs     == Matching(g.nodes, "Client", "name", name)
        typed  == Upsert(g.nodes, "Goal", "id", id, ("type" :> "Retirement"))
        goalNs == Matching(typed, "Goal", "id", id)
    IN  IF cs = {} THEN Ok(g)
        ELSE Ok([nodes |-> SetProps(typed, goalNs, props),
                 rels  |-> MergeRel(g.rels, "HAS_GOAL", cs, goalNs)])

\* one statement, by kind
Exec(g, s) ==
    CASE s.kind = "adviser" -> RunAdviser(g, s.name)
      [] s.kind = "client"  -> RunClient(g, s.name, s.props)
      [] s.kind = "advises" -> RunAdvises(g, s.c_name, s.a_name)
      [] s.kind = "dep"     -> RunOwned(g, s.owner, "Dependant", s.id, s.props, "PARENT_OF")
      [] s.kind = "prop"    -> RunOwned(g, s.owner, "Property", s.id, s.props, "OWNS")
      [] s.kind = "pen"     -> RunAccount(g, s.owner, "Pension", s.id, s.props)
      [] s.kind = "inv"     -> RunAccount(g, s.owner, "Investment", s.id, s.props)
      [] s.kind = "goal"    -> RunGoal(g, s.owner, s.id, s.props)

(***************************************************************************)
(* build_graph_from_entities: the statements it issues, in order, for a    *)
(* record and a document name.  A statement carries, besides its query     *)
(* parameters, the list position it comes from (pos: 1-based position in   *)
(* 'clients'; idx: the enumerate() index).                                 *)
(***************************************************************************)
\* primary_client_name = clients[0].get('name', f"Unknown_{document_name}")
primary_client_name(clients, document_name) ==
    Get(clients[1], "name", "Unknown_" \o PyStr(document_name))

\* variant: the client is not tagged with the document it comes from
ClientProps_NoSourceTag(client, document_name, primary) ==
    IF "name" \notin DOMAIN DropNone(client)
    THEN SetItem(DropNone(client), "name", primary)
    ELSE DropNone(client)

\* props of one client: the non-null items, source_document, and the primary
\* client's name when the entry has none
ClientProps(client, document_name, primary) ==
    LET props == SetItem(DropNone(client), "source_document", document_name)
    IN  IF "name" \notin DOMAIN props THEN SetItem(props, "name", primary) ELSE props

\* variant: the identifier leaves the list index out
dep_id_NoIndex(primary, idx) == PyStr(primary) \o "_dep"

\* the synthetic identifiers
dep_id(primary, idx)  == PyStr(primary) \o "_dep_" \o ToString(idx)
prop_id(primary, idx) == PyStr(primary) \o "_prop_" \o ToString(idx)
pen_id(owner, idx)    == PyStr(owner) \o "_pen_" \o ToString(idx)
inv_id(owner, idx)    == PyStr(owner) \o "_inv_" \o ToString(idx)
goal_id(primary)      == PyStr(primary) \o "_ret_goal"

\* owner = pen.get('owner', primary_client_name)
AccountOwner(account, primary) == Get(account, "owner", primary)

\* for client in clients: upsert the client, then link the adviser if any
ClientStmts(clients, adviser, document_name, primary) ==
    LET props(j) == ClientProps(clients[j], document_name, primary)
        one(j)   == [kind |-> "client", name |-> props(j)["name"],
                     props |-> props(j), pos |-> j]
        link(j)  == [kind |-> "advises", c_name |-> props(j)["name"],
                     a_name |-> adviser, pos |-> j]
    IN  IF Truthy(adviser)
        THEN [t \in 1..(2 * Len(clients)) |->
                 IF t % 2 = 1 THEN one((t + 1) \div 2) ELSE link(t \div 2)]
        ELSE [t \in 1..Len(clients) |-> one(t)]

\* for idx, dep in enumerate(entities.get('dependants', []))
DepStmts(dependants, primary) ==
    [t \in 1..Len(dependants) |->
        [kind |-> "dep", owner |-> primary, id |-> dep_id(primary, t - 1),
         props |-> dependants[t], idx |-> t - 1]]

\* for idx, prop in enumerate(assets.get('properties', []))
PropStmts(properties, primary) ==
    [t \in 1..Len(properties) |->
        [kind |-> "prop", owner |-> primary, id |-> prop_id(primary, t - 1),
         props |-> properties[t], idx |-> t - 1]]

\* for idx, pen in enumerate(assets.get('pensions', []))
PenStmts(pensions, primary) ==
    [t \in 1..Len(pensions) |->
        [kind |-> "pen", owner |-> AccountOwner(pensions[t], primary),
         id |-> pen_id(AccountOwner(pensions[t], primary), t - 1),
         props |-> pensions[t], idx |-> t - 1]]

\* for idx, inv in enumerate(assets.get('investments', []))
InvStmts(investments, primary) ==
    [t \in 1..Len(investments) |->
        [kind |-> "inv", owner |-> AccountOwner(investments[t], primary),
         id |-> inv_id(AccountOwner(investments[t], primary), t - 1),
         props |-> investments[t], idx |-> t - 1]]

\* goals = entities.get('goals', {}); if goals.get('retirement'): ...
GoalStmts(goals, primary) ==
    IF "retirement" \in DOMAIN goals /\ DOMAIN goals["retirement"] # {}
    THEN <<[kind |-> "goal", owner |-> primary, id |-> goal_id(primary),
            props |-> goals["retirement"]]>>
    ELSE <<>>

\* if entities.get('adviser'): MERGE the adviser  (before the clients check)
AdviserStmts(entities) ==
    IF Truthy(Get(entities, "adviser", None))
    THEN <<[kind |-> "adviser", name |-> entities["adviser"]]>>
    ELSE <<>>

Statements(entities, document_name) ==
    IF DOMAIN entities = {} THEN <<>>                 \* if not entities: return
    ELSE LET clients == Get(entities, "clients", <<>>)
             primary == primary_client_name(clients, document_name)
             assets  == Get(entities, "assets", EmptyDict)
         IN  IF Len(clients) = 0 THEN AdviserStmts(entities)   \* if not clients: return
             ELSE AdviserStmts(entities)
                  \o ClientStmts(clients, Get(entities, "adviser", None),
                                 document_name, primary)
                  \o DepStmts(Get(entities, "dependants", <<>>), primary)
                  \o PropStmts(Get(assets, "properties", <<>>), primary)
                  \o PenStmts(Get(assets, "pensions", <<>>), primary)
                  \o InvStmts(Get(assets, "investments", <<>>), primary)
                  \o GoalStmts(Get(entities, "goals", EmptyDict), primary)

\* the statements run one after the other; the first that raises ends the call
\* (Only({e(x) : x \in {v}}) is LET x == v IN e(x) with v computed once)
Only(S) == CHOOSE x \in S : TRUE

RECURSIVE RunFrom(_, _, _)
RunFrom(g, stmts, k) ==
    IF k > Len(stmts)
    THEN [graph |-> g, raised |-> FALSE, executed |-> Len(stmts)]
    ELSE Only({ IF r.ok THEN RunFrom(r.graph, stmts, k + 1)
                ELSE [graph |-> g, raised |-> TRUE, executed |-> k - 1] :
                r \in {Exec(g, stmts[k])} })

build_graph_from_entities(g, entities, document_name) ==
    Only({RunFrom(g, stmts, 1) : stmts \in {Statements(entities, document_name)}})

(***************************************************************************)
(* Inputs: the records the extraction can return.  All values are strings  *)
(* or None; lists are sequences.                                           *)
(***************************************************************************)
\* entries of 'clients': named; the same name again with a null field;
\* another name; no 'name' key; 'name' null
ClientA    == [name |-> "A", age |-> "41"]
ClientA2   == [name |-> "A", age |-> None, employer |-> "Acme"]
ClientB    == [name |-> "B", age |-> None]
NoName     == [age |-> "52"]
NullName   == [name |-> None, age |-> "63"]

ClientEntries == {ClientA, ClientB, NoName, NullName}

\* every list of one or two of these entries, and one that names A twice
ClientLists ==
    {<<c>> : c \in ClientEntries}
    \cup {<<c, d>> : c, d \in ClientEntries}
    \cup {<<ClientA, ClientA2>>}

\* a pension / investment whose owner is: key absent, null, a client, somebody else
AccountEntries ==
    { [type |-> "SIPP"],
      [type |-> "SIPP", owner |-> None],
      [type |-> "SIPP", owner |-> "A"],
      [type |-> "ISA", owner |-> "B"] }

Dependants(m) == [t \in 1..m |-> [name |-> "kid" \o ToString(t), notes |-> None]]
Properties(k) == [t \in 1..k |-> [type |-> "home" \o ToString(t)]]
Accounts(n)   == [t \in 1..n |-> [type |-> "plan" \o ToString(t)]]
Retirement    == [retirement |-> [target_age |-> "65"]]

Record(adviser, clients, dependants, properties, pensions, investments, goals) ==
    [adviser |-> adviser, clients |-> clients, dependants |-> dependants,
     assets |-> [properties |-> properties, pensions |-> pensions,
                 investments |-> investments],
     goals |-> goals, document_type |-> "review"]

\* records without clients: key missing or list empty
NoClientRecords ==
    { [adviser |-> "Z", document_type |-> "review"],
      Record("Z", <<>>, Dependants(1), <<>>, <<>>, <<>>, EmptyDict),
      Record(None, <<>>, Dependants(1), <<>>, <<>>, <<>>, EmptyDict) }

\* clients only, without and with an adviser
ClientRecords ==
    {Record(None, cl, <<>>, <<>>, <<>>, <<>>, EmptyDict) : cl \in ClientLists}
    \cup {Record("Z", cl, <<>>, <<>>, <<>>, <<>>, EmptyDict) :
             cl \in {<<ClientA>>, <<ClientA, NoName>>, <<NullName>>}}

\* dependants and properties under each kind of primary client
FamilyRecords ==
    {Record(None, <<c>>, Dependants(mk[1]), Properties(mk[2]), <<>>, <<>>, EmptyDict) :
        c \in {ClientA, NoName, NullName},
        mk \in {<<1, 1>>, <<MaxDeps, MaxProps>>}}

\* pensions and investments with each kind of owner
AccountRecords ==
    {Record(None, <<ClientA>>, <<>>, <<>>, <<a>>, <<>>, EmptyDict) : a \in AccountEntries}
    \cup {Record(None, <<ClientA>>, <<>>, <<>>, <<>>, <<a>>, EmptyDict) : a \in AccountEntries}
    \cup { Record(None, <<ClientA>>, <<>>, <<>>, Accounts(MaxAccounts), <<>>, EmptyDict),
           Record(None, <<NoName>>, <<>>, <<>>, Accounts(1), Accounts(MaxAccounts), EmptyDict) }

GoalRecords ==
    { Record(None, <<ClientA>>, <<>>, <<>>, <<>>, <<>>, Retirement),
      Record("Z", <<ClientA, ClientB>>, Dependants(1), Properties(1),
             <<[type |-> "SIPP"]>>, <<[type |-> "ISA", owner |-> "B"]>>, Retirement) }

Records ==
    NoClientRecords \cup ClientRecords \cup FamilyRecords \cup AccountRecords
    \cup GoalRecords

\* records of each outcome of the upsert: complete, clients missing or
\* empty, raising at the first statement, raising after some writes
SampleRecords ==
    { Record("Z", <<ClientA, ClientB>>, Dependants(1), Properties(1),
             <<[type |-> "SIPP"]>>, <<[type |-> "ISA", owner |-> "B"]>>, Retirement),
      Record(None, <<NoName>>, Dependants(1), <<>>, <<>>, <<>>, EmptyDict),
      [adviser |-> "Z", document_type |-> "review"],
      Record(None, <<>>, Dependants(1), <<>>, <<>>, <<>>, EmptyDict),
      Record(None, <<NullName>>, <<>>, <<>>, <<>>, <<>>, EmptyDict),
      Record(None, <<ClientA>>, <<>>, <<>>, <<[type |-> "SIPP", owner |-> None]>>,
             <<>>, EmptyDict) }

\* filepath.stem of the i-th file of the directory
DocName(idx) == "doc" \o ToString(idx)

(***************************************************************************)
(* process_all_documents as the state machine of its loop.                 *)
(***************************************************************************)
VARIABLES
    pc,          \* Idle, Reading, Extracting, Upserting, Sleeping, Done
    total,       \* len(docx_files)
    i,           \* the loop index, 1-based as in enumerate(docx_files, 1)
    entities,    \* the record returned by extract_entities_with_groq
    successful,
    failed,
    graph,       \* the graph store
    constraints, \* the uniqueness constraints declared in the store
    hist,        \* what happened to each document processed so far
    slept        \* the documents after which time.sleep was called

vars == <<pc, total, i, entities, successful, failed, graph, constraints, hist, slept>>

Init ==
    /\ pc = "Idle"
    /\ total = 0
    /\ i = 0
    /\ entities = EmptyDict
    /\ successful = 0
    /\ failed = 0
    /\ graph = EmptyGraph
    /\ constraints = {}
    /\ hist = <<>>
    /\ slept = {}

\* variant: the loop stops after the first document that gets past reading
AfterTry_EndsBatch(idx, n) == "Done"

\* where the loop goes after the try block of document idx:
\* if i < len(docx_files): sleep; else the loop ends
AfterTry(idx, n) == IF idx < n THEN "Sleeping" ELSE "Done"

\* variant: an empty text also goes through the sleep
AfterContinue_Sleeps(idx, n) == IF idx < n THEN "Sleeping" ELSE "Done"

\* where the loop goes after `continue` in document idx
AfterContinue(idx, n) == IF idx < n THEN "Reading" ELSE "Done"

\* the log entry of one document
Entry(idx, outcome, rec, res, before) ==
    [doc |-> DocName(idx), outcome |-> outcome, entities |-> rec,
     executed |-> res.executed, raised |-> res.raised,
     fromEmpty |-> (before = EmptyGraph), changed |-> (res.graph # before)]

NoRun(g) == [graph |-> g, raised |-> FALSE, executed |-> 0]

\* create_constraints: (label, key) pairs required to be unique.  Nodes are
\* only ever created by MERGE on that key, so no write violates them.
UniqueKeys ==
    { <<"Client", "name">>, <<"Dependant", "id">>, <<"Property", "id">>,
      <<"Pension", "id">>, <<"Investment", "id">>, <<"Adviser", "name">> }

\* docx_files = list(glob("*.docx")); create_constraints(); successful = failed = 0
Start(n) ==
    /\ pc = "Idle"
    /\ total' = n
    /\ constraints' = UniqueKeys
    /\ successful' = 0
    /\ failed' = 0
    /\ i' = IF n > 0 THEN 1 ELSE 0
    /\ pc' = IF n > 0 THEN "Reading" ELSE "Done"
    /\ UNCHANGED <<entities, graph, hist, slept>>

\* text = self.read_docx(...); if not text: failed += 1; continue
ReadDoc(empty) ==
    /\ pc = "Reading"
    /\ IF empty
       THEN /\ failed' = failed + 1
            /\ hist' = Append(hist, Entry(i, "empty_text", EmptyDict, NoRun(graph), graph))
            /\ pc' = AfterContinue(i, total)
            /\ i' = IF AfterContinue(i, total) = "Reading" THEN i + 1 ELSE i
       ELSE /\ pc' = "Extracting"
            /\ UNCHANGED <<failed, hist, i>>
    /\ slept' = IF pc' = "Sleeping" THEN slept \cup {i} ELSE slept
    /\ UNCHANGED <<total, entities, successful, graph, constraints>>

\* variant: an empty record is handed to the upsert like any other
Extract_EmptyIsUpserted(rec) ==
    /\ pc = "Extracting"
    /\ entities' = rec
    /\ pc' = "Upserting"
    /\ UNCHANGED <<total, i, successful, failed, graph, constraints, hist, slept>>

\* entities = self.extract_entities_with_groq(text); if entities: ... else: failed += 1
Extract(rec) ==
    /\ pc = "Extracting"
    /\ entities' = rec
    /\ IF DOMAIN rec # {}
       THEN /\ pc' = "Upserting"
            /\ UNCHANGED <<failed, hist, slept>>
       ELSE /\ failed' = failed + 1
            /\ hist' = Append(hist, Entry(i, "empty_record", rec, NoRun(graph), graph))
            /\ pc' = AfterTry(i, total)
            /\ slept' = IF pc' = "Sleeping" THEN slept \cup {i} ELSE slept
    /\ UNCHANGED <<total, i, successful, graph, constraints>>

\* self.build_graph_from_entities(entities, filepath.stem); successful += 1
\* except Exception: failed += 1
UpsertDoc ==
    /\ pc = "Upserting"
    /\ \E res \in {build_graph_from_entities(graph, entities, DocName(i))} :
           /\ graph' = res.graph
           /\ successful' = IF res.raised THEN successful ELSE successful + 1
           /\ failed' = IF res.raised THEN failed + 1 ELSE failed
           /\ hist' = Append(hist, Entry(i, IF res.raised THEN "error" ELSE "success",
                                         entities, res, graph))
    /\ pc' = AfterTry(i, total)
    /\ slept' = IF pc' = "Sleeping" THEN slept \cup {i} ELSE slept
    /\ UNCHANGED <<total, i, entities, constraints>>

\* time.sleep(DELAY_BETWEEN_DOCS_SECONDS), then the next document
Sleep ==
    /\ pc = "Sleeping"
    /\ i' = i + 1
    /\ pc' = "Reading"
    /\ UNCHANGED <<total, entities, successful, failed, graph, constraints, hist, slept>>

Next ==
    \/ \E n \in 0..MaxDocs : Start(n)
    \/ \E empty \in BOOLEAN : ReadDoc(empty)
    \/ \E rec \in Records \cup {EmptyDict} : Extract(rec)
    \/ UpsertDoc
    \/ Sleep

Spec == Init /\ [][Next]_vars

\* The same loop over one record of each upsert outcome.  The loop is
\* sequential code: a step that can be taken is taken.
NextSample ==
    \/ \E n \in 0..MaxDocs : Start(n)
    \/ \E empty \in BOOLEAN : ReadDoc(empty)
    \/ \E rec \in SampleRecords \cup {EmptyDict} : Extract(rec)
    \/ UpsertDoc
    \/ Sleep

FairSpec == Init /\ [][NextSample]_vars /\ WF_vars(NextSample)

(***************************************************************************)
(* Vocabulary of the properties.                                           *)
(***************************************************************************)
Processed    == 1..Len(hist)
IsUpsert(h)  == h.outcome \in {"success", "error"}
Last         == hist[Len(hist)]
LastIsUpsert == Len(hist) > 0 /\ IsUpsert(Last)
ClientsOf(h) == Get(h.entities, "clients", <<>>)
StmtsOf(h)   == Statements(h.entities, h.doc)
NodesOf(label) == {n \in 1..Len(graph.nodes) : graph.nodes[n].label = label}
Named(label, key, val) == Matching(graph.nodes, label, key, val)
IsIndexed(s) == s.kind \in {"dep", "prop", "pen", "inv"}
NameMissing(client) == "name" \notin DOMAIN client \/ client["name"] = None

\* C1: a record whose 'clients' list is missing or empty leaves the graph
\* exactly as it was, whatever its other fields (a non-null adviser included).
C1_NoClientsNoWrites ==
    \A j \in Processed :
        (IsUpsert(hist[j]) /\ Len(ClientsOf(hist[j])) = 0) => ~hist[j].changed

\* C2: upserting the same record under the same document name once more
\* leaves every node, property and relationship as the first upsert left it.
C2_Idempotent ==
    (LastIsUpsert /\ Len(ClientsOf(Last)) >= 1) =>
        LET again == build_graph_from_entities(graph, Last.entities, Last.doc)
        IN  again.graph = graph /\ again.raised = Last.raised

C2_Witness ==
    /\ Len(hist) = 2 /\ IsUpsert(hist[1]) /\ IsUpsert(hist[2])
    /\ ~Last.raised /\ Last.changed
    /\ Len(ClientsOf(Last)) = 2
    /\ Len(graph.nodes) >= 3

C4_FamilyNodes ==
    (LastIsUpsert /\ Last.fromEmpty /\ Len(ClientsOf(Last)) >= 1) =>
        LET deps  == Get(Last.entities, "dependants", <<>>)
            props == Get(Get(Last.entities, "assets", EmptyDict), "properties", <<>>)
            prim  == Named("Client", "name", StmtsOf(Last)[1 + Len(AdviserStmts(Last.entities))].name)
        IN  /\ Cardinality(NodesOf("Dependant")) = Len(deps)
            /\ Cardinality(NodesOf("Property")) = Len(props)
            /\ \A d \in NodesOf("Dependant") : \E c \in prim :
                   [type |-> "PARENT_OF", from |-> c, to |-> d] \in graph.rels
            /\ \A q \in NodesOf("Property") : \E c \in prim :
                   [type |-> "OWNS", from |-> c, to |-> q] \in graph.rels

\* the dependant / asset writes done so far: kind, identifier, owner name
\* and list index of each, with the position of its document in the batch
Written ==
    UNION { LET stmts == StmtsOf(hist[j])
            IN  { [kind |-> stmts[k].kind, id |-> stmts[k].id, owner |-> stmts[k].owner,
                   idx |-> stmts[k].idx, doc |-> j] :
                  k \in {x \in 1..hist[j].executed : IsIndexed(stmts[x])} } :
            j \in Processed }

LabelOf(kind) ==
    CASE kind = "dep" -> "Dependant" [] kind = "prop" -> "Property"
      [] kind = "pen" -> "Pension"   [] kind = "inv" -> "Investment"

\* C5 as claimed: two dependants / assets written by any two upserts have the
\* same identifier only if they come from the same document and list index.
C5_IdsPerDocumentAndIndex ==
    LET w == Written
    IN  \A a, b \in w :
            (a.kind = b.kind /\ a.id = b.id) => (a.doc = b.doc /\ a.idx = b.idx)

\* C5 amended: two dependants / assets of one kind have the same identifier
\* exactly when their owner name and list index are the same, whatever the
\* document; the store holds one node per such (owner name, index).
C5_IdsPerOwnerAndIndex ==
    LET w == Written
    IN  /\ \A a, b \in w :
              a.kind = b.kind =>
                  ((a.id = b.id) <=> (a.owner = b.owner /\ a.idx = b.idx))
        /\ \A kind \in {"dep", "prop", "pen", "inv"} :
              Cardinality(NodesOf(LabelOf(kind))) =
                  Cardinality({<<a.owner, a.idx>> : a \in {x \in w : x.kind = kind}})
        /\ \A a \in w : Cardinality(Named(LabelOf(a.kind), "id", a.id)) = 1

C5_Witness ==
    /\ Len(hist) = 2
    /\ \E a, b \in Written :
          a.kind = "dep" /\ b.kind = "dep" /\ a.doc = 1 /\ b.doc = 2 /\ a.id = b.id
    /\ Cardinality(NodesOf("Dependant")) = 2
    /\ Cardinality(NodesOf("Pension")) >= 1

\* C6: every client entry without a name (key absent or null) is written as
\* a Client node named Unknown_<document_name>, tagged with the document.
C6_MissingNamePlaceholder ==
    LastIsUpsert =>
        \A pos \in 1..Len(ClientsOf(Last)) :
            NameMissing(ClientsOf(Last)[pos]) =>
                \E n \in Named("Client", "name", "Unknown_" \o Last.doc) :
                    /\ graph.nodes[n].props["source_document"] = Last.doc
                    /\ \A key \in DOMAIN DropNone(ClientsOf(Last)[pos]) :
                           key \in DOMAIN graph.nodes[n].props

\* C7: every pension / investment of a record with clients is linked by
\* HAS_ACCOUNT from the Client node of its owner, the primary client when the
\* owner is absent or null.
C7_AccountOwner ==
    (LastIsUpsert /\ Len(ClientsOf(Last)) >= 1) =>
        LET assets  == Get(Last.entities, "assets", EmptyDict)
            primary == primary_client_name(ClientsOf(Last), Last.doc)
            owner(a) == IF "owner" \notin DOMAIN a \/ a["owner"] = None
                        THEN primary ELSE a["owner"]
            linked(label, id, o) ==
                \E c \in Named("Client", "name", o), x \in Named(label, "id", id) :
                    [type |-> "HAS_ACCOUNT", from |-> c, to |-> x] \in graph.rels
        IN  /\ \A t \in 1..Len(Get(assets, "pensions", <<>>)) :
                 linked("Pension",
                        PyStr(owner(assets["pensions"][t])) \o "_pen_" \o ToString(t - 1),
                        owner(assets["pensions"][t]))
            /\ \A t \in 1..Len(Get(assets, "investments", <<>>)) :
                 linked("Investment",
                        PyStr(owner(assets["investments"][t])) \o "_inv_" \o ToString(t - 1),
                        owner(assets["investments"][t]))

\* C8: a document whose extraction returns an empty record is counted as
\* failed and not as successful, the graph is not touched, and the loop goes
\* on (to the sleep before the next document, or to the end after the last).
C8_EmptyRecordFails ==
    [][(pc = "Extracting" /\ DOMAIN entities' = {}) =>
          /\ failed' = failed + 1
          /\ successful' = successful
          /\ graph' = graph
          /\ i' = i
          /\ pc' = (IF i < total THEN "Sleeping" ELSE "Done")
          /\ Len(hist') = Len(hist) + 1]_vars

C8_Witness ==
    \E j \in Processed :
        /\ hist[j].outcome = "empty_record"
        /\ j < Len(hist)
        /\ failed >= 1

\* C9: whatever happens to each document, the batch reaches Done, and at Done
\* every document has been visited once, in order, and counted in exactly one
\* of successful and failed.
DoneCounts ==
    /\ Len(hist) = total
    /\ \A j \in Processed : hist[j].doc = DocName(j)
    /\ successful = Cardinality({j \in Processed : hist[j].outcome = "success"})
    /\ failed = Cardinality({j \in Processed : hist[j].outcome # "success"})
    /\ successful + failed = total

C9_BatchCompletes == <>(pc = "Done") /\ [](pc = "Done" => DoneCounts)

C9_Witness ==
    /\ pc = "Done" /\ total = 2
    /\ {hist[j].outcome : j \in Processed} \in
          {{"empty_text", "success"}, {"empty_record", "success"}, {"error", "success"}}

\* C10 as claimed: the loop sleeps after every document except the last,
\* whatever the document's outcome.
C10_SleepAfterEveryDocButLast ==
    \A j \in Processed : (j \in slept) <=> (j < total)

\* C10 amended: the loop sleeps after every document except the last whose
\* text was not empty; an empty text goes straight on to the next document.
C10_SleepUnlessEmptyText ==
    /\ \A j \in Processed :
          (j \in slept) <=> (j < total /\ hist[j].outcome # "empty_text")
    /\ (pc = "Sleeping") => (i \in slept /\ Len(hist) = i)
    /\ (pc = "Reading" /\ i > 1) =>
          ((i - 1 \in slept) <=> (hist[i - 1].outcome # "empty_text"))

C10_Witness ==
    /\ pc = "Reading" /\ i = 2
    /\ hist[1].outcome = "error"
    /\ slept = {1}

====
